---- MODULE Spec2Model ----
(***************************************************************************)
(* Model of text_extract.py: the directory walk of process_directory, the  *)
(* four format extractors, the sentence chunker and the CSV/XLSX writer of *)
(* the entry point.                                                        *)
(*                                                                         *)
(* Python strings are sequences of one-character strings, so that strip,   *)
(* split, join, lower and str() are computed and not assumed.  Python      *)
(* values of varying type (None, int, str) are tagged records.             *)
(***************************************************************************)
EXTENDS Integers, Sequences, FiniteSets, TLC

\* ------------------------------------------------------------------ bounds
\* Files visited by one walk.
MaxFiles == 2
\* Pages of the PDFs of one walk, all PDFs together.
MaxPages == 2

\* ------------------------------------------------------------ Python values
PyNone == [t |-> "none"]
PyInt(n) == [t |-> "int", i |-> n]
PyStr(s) == [t |-> "str", s |-> s]
\* An operation that raised instead of returning a value.
Raised == [t |-> "raise"]

\* str.strip(), str.split(), str.lower(), str.join(), str(int)
Whitespace == {" ", "\t"}

RECURSIVE LStrip(_)
LStrip(s) ==
  IF s = <<>> THEN <<>>
  ELSE IF Head(s) \in Whitespace THEN LStrip(Tail(s)) ELSE s

RECURSIVE RStrip(_)
RStrip(s) ==
  IF s = <<>> THEN <<>>
  ELSE IF s[Len(s)] \in Whitespace THEN RStrip(SubSeq(s, 1, Len(s) - 1)) ELSE s

Strip(s) == LStrip(RStrip(s))

UpperCase == <<"A","B","C","D","E","F","G","H","I","J","K","L","M",
               "N","O","P","Q","R","S","T","U","V","W","X","Y","Z">>
LowerCase == <<"a","b","c","d","e","f","g","h","i","j","k","l","m",
               "n","o","p","q","r","s","t","u","v","w","x","y","z">>

LowerChar(c) ==
  IF \E k \in 1..Len(UpperCase) : UpperCase[k] = c
  THEN LowerCase[CHOOSE k \in 1..Len(UpperCase) : UpperCase[k] = c]
  ELSE c

Lower(s) == [k \in 1..Len(s) |-> LowerChar(s[k])]

\* s.split(sep) for a one-character separator: always at least one piece.
RECURSIVE Split(_, _)
Split(s, sep) ==
  IF \E k \in 1..Len(s) : s[k] = sep
  THEN LET k == CHOOSE j \in 1..Len(s) :
                  s[j] = sep /\ \A m \in 1..(j - 1) : s[m] # sep
       IN  <<SubSeq(s, 1, k - 1)>> \o Split(SubSeq(s, k + 1, Len(s)), sep)
  ELSE <<s>>

\* sep.join(parts)
RECURSIVE Join(_, _)
Join(sep, parts) ==
  IF parts = <<>> THEN <<>>
  ELSE IF Len(parts) = 1 THEN parts[1]
  ELSE parts[1] \o sep \o Join(sep, Tail(parts))

DigitChars == <<"0","1","2","3","4","5","6","7","8","9">>

\* str(n) of a non-negative int
RECURSIVE Digits(_)
Digits(n) ==
  IF n < 10 THEN <<DigitChars[n + 1]>>
  ELSE Digits(n \div 10) \o <<DigitChars[(n % 10) + 1]>>

\* str(cell) of a cell value that is not None
StrOf(v) == IF v.t = "int" THEN Digits(v.i) ELSE v.s

\* ------------------------------------------------------- sentence chunker
Terminators == {".", "!", "?"}

\* sent_tokenize: a sentence ends at a terminator followed by whitespace;
\* trailing whitespace is cut, a blank text has no sentence.
RECURSIVE SentTokenize(_)
SentTokenize(text) ==
  LET t == RStrip(text)
      Breaks == {k \in 1..(Len(t) - 1) :
                   t[k] \in Terminators /\ t[k + 1] \in Whitespace}
  IN  IF t = <<>> THEN <<>>
      ELSE IF Breaks = {} THEN <<t>>
      ELSE LET k == CHOOSE j \in Breaks : \A m \in Breaks : j <= m
           IN  <<SubSeq(t, 1, k)>>
                 \o SentTokenize(LStrip(SubSeq(t, k + 1, Len(t))))

chunk_sentences(text) == SentTokenize(text)

\* ------------------------------------------------------------- text values
s_empty == <<>>
s_blank == <<" ">>
s_Hi == <<"H","i",".">>
s_HiYo == <<"H","i","."," ","Y","o",".">>
s_padded == <<" ","Y","o"," ">>
s_ok == <<"o","k">>
s_S1 == <<"S","1">>
s_T == <<"T">>

\* ------------------------------------------------------------- extractors
\* extract_docx: the stripped non-blank paragraphs, and the comments.
extract_docx(doc) ==
  LET stripped == [k \in 1..Len(doc.paragraphs) |-> Strip(doc.paragraphs[k])]
  IN  [text |-> SelectSeq(stripped, LAMBDA p : p # <<>>),
       comments |-> doc.comments]

\* The stripped texts of the shapes of a slide that have a non-blank text.
SlideText(shapes) ==
  LET HasText(sh) == sh.t = "str" /\ Strip(sh.s) # <<>>
      kept == SelectSeq(shapes, HasText)
  IN  [k \in 1..Len(kept) |-> Strip(kept[k].s)]

\* extract_pptx: one (slide number, text) per slide.
extract_pptx(prs) ==
  [k \in 1..Len(prs) |-> <<k, Join(<<" ">>, SlideText(prs[k]))>>]

\* row_text of one row: the cells that are not None, joined.
RowText(row) ==
  LET NotNone(c) == c # PyNone
      cells == SelectSeq(row, NotNone)
  IN  Join(<<" ", "|", " ">>, [k \in 1..Len(cells) |-> StrOf(cells[k])])

\* The rows of one sheet, from row number k on.
RECURSIVE SheetRows(_, _, _)
SheetRows(sheet_name, rows, k) ==
  IF k > Len(rows) THEN <<>>
  ELSE LET row_text == RowText(rows[k])
       IN  (IF Strip(row_text) # <<>>
            THEN << <<sheet_name, k, row_text>> >>
            ELSE <<>>)
           \o SheetRows(sheet_name, rows, k + 1)

\* extract_xlsx: (sheet name, row number, text) of the kept rows, sheet by sheet.
RECURSIVE extract_xlsx(_)
extract_xlsx(wb) ==
  IF wb = <<>> THEN <<>>
  ELSE SheetRows(wb[1].name, wb[1].rows, 1) \o extract_xlsx(Tail(wb))

\* use_ocr as process_directory passes it.
use_ocr == TRUE

Ok == [t |-> "ok"]
\* A call that returned v.
Returned(v) == [t |-> "ok", v |-> v]

\* Faulty variant: convert_from_path called without first_page, from page 1 on.
convert_from_path_no_first(first_page, last_page) ==
  [k \in 1..last_page |-> k]

\* convert_from_path(file_path, first_page, last_page): one image per page of
\* the range, each image named by the page it shows.
convert_from_path(first_page, last_page) ==
  [k \in 1..(last_page - first_page + 1) |-> first_page + k - 1]

\* for img in pil_images: image_to_string, and the append of a non-blank text.
\* acc is [items, ocr, raised]; ocr_of gives image_to_string's result per image.
RECURSIVE OcrLoop(_, _, _, _)
OcrLoop(acc, pageno, pil_images, ocr_of) ==
  IF pil_images = <<>> THEN acc
  ELSE LET img == Head(pil_images)
           res == ocr_of[img]
       IN  IF res = Raised THEN [acc EXCEPT !.raised = TRUE]
           ELSE LET ocr_text == res.s
                IN  OcrLoop(
                      [items |-> IF Strip(ocr_text) # <<>>
                                 THEN Append(acc.items, <<pageno, ocr_text>>)
                                 ELSE acc.items,
                       ocr |-> Append(acc.ocr, <<img, ocr_text>>),
                       raised |-> FALSE],
                      pageno, Tail(pil_images), ocr_of)

\* Faulty variant: the OCR branch is an if of its own, taken for every page.
PdfPageBodyOcrAlways(items, idx, native, conv, ocr_of) ==
  IF native = Raised
  THEN [items |-> items, native |-> <<>>, raster |-> <<>>, ocr |-> <<>>,
        raised |-> TRUE]
  ELSE LET page_text == IF native = PyNone THEN <<>> ELSE native.s
           items1 == IF Strip(page_text) # <<>>
                     THEN Append(items, <<idx + 1, page_text>>)
                     ELSE items
       IN  IF conv = Raised
           THEN [items |-> items1, native |-> <<page_text>>,
                 raster |-> << <<idx + 1, idx + 1>> >>, ocr |-> <<>>,
                 raised |-> TRUE]
           ELSE LET r == OcrLoop([items |-> items1, ocr |-> <<>>,
                                  raised |-> FALSE],
                                 idx + 1, convert_from_path(idx + 1, idx + 1),
                                 ocr_of)
                IN  [items |-> r.items, native |-> <<page_text>>,
                     raster |-> << <<idx + 1, idx + 1>> >>,
                     ocr |-> r.ocr, raised |-> r.raised]

\* The body of extract_pdf's page loop for page index idx (0-based).
\* native is page.extract_text()'s result, conv convert_from_path's outcome.
\* Gives the new text_items, the calls made and whether an exception left
\* the loop.
PdfPageBody(items, idx, native, conv, ocr_of) ==
  IF native = Raised
  THEN [items |-> items, native |-> <<>>, raster |-> <<>>, ocr |-> <<>>,
        raised |-> TRUE]
  ELSE LET page_text == IF native = PyNone THEN <<>> ELSE native.s
       IN  IF Strip(page_text) # <<>>
           THEN [items |-> Append(items, <<idx + 1, page_text>>),
                 native |-> <<page_text>>, raster |-> <<>>, ocr |-> <<>>,
                 raised |-> FALSE]
           ELSE IF use_ocr
           THEN IF conv = Raised
                THEN [items |-> items, native |-> <<page_text>>,
                      raster |-> << <<idx + 1, idx + 1>> >>, ocr |-> <<>>,
                      raised |-> TRUE]
                ELSE LET pil_images == convert_from_path(idx + 1, idx + 1)
                         r == OcrLoop([items |-> items, ocr |-> <<>>,
                                       raised |-> FALSE],
                                      idx + 1, pil_images, ocr_of)
                     IN  [items |-> r.items, native |-> <<page_text>>,
                          raster |-> << <<idx + 1, idx + 1>> >>,
                          ocr |-> r.ocr, raised |-> r.raised]
           ELSE [items |-> items, native |-> <<page_text>>, raster |-> <<>>,
                 ocr |-> <<>>, raised |-> FALSE]

\* ----------------------------------------------------------------- records
Columns == <<"File Path", "File Name", "File Type", "Page/Slide/Sheet",
             "Extracted sentence", "Comments", "Metadata">>

\* One record dict of process_directory.
Record(dir_path, filename, file_type, location, chunk, comments) ==
  ("File Path" :> dir_path) @@ ("File Name" :> filename)
    @@ ("File Type" :> file_type) @@ ("Page/Slide/Sheet" :> location)
    @@ ("Extracted sentence" :> chunk) @@ ("Comments" :> comments)
    @@ ("Metadata" :> PyNone)

\* Faulty variant: each unit's records are inserted at the front.
RECURSIVE ConcatPrepend(_)
ConcatPrepend(seqs) ==
  IF seqs = <<>> THEN <<>> ELSE ConcatPrepend(Tail(seqs)) \o Head(seqs)

\* The appends of nested for loops, in order.
RECURSIVE Concat(_)
Concat(seqs) == IF seqs = <<>> THEN <<>> ELSE Head(seqs) \o Concat(Tail(seqs))

DocxRecords(dir_path, filename, text_list, comments) ==
  Concat([k \in 1..Len(text_list) |->
    LET chunks == chunk_sentences(text_list[k])
    IN  [j \in 1..Len(chunks) |->
           Record(dir_path, filename, "docx", PyNone, chunks[j],
                  PyStr(Join(<<" ", "|", " ">>, comments)))]])

PptxRecords(dir_path, filename, slides) ==
  Concat([k \in 1..Len(slides) |->
    LET chunks == chunk_sentences(slides[k][2])
    IN  [j \in 1..Len(chunks) |->
           Record(dir_path, filename, "pptx", PyInt(slides[k][1]), chunks[j],
                  PyNone)]])

\* f"{sheet_name}:{row_idx}"
SheetRow(sheet_name, row_idx) == sheet_name \o <<":">> \o Digits(row_idx)

XlsxRecords(dir_path, filename, rows) ==
  Concat([k \in 1..Len(rows) |->
    LET chunks == chunk_sentences(rows[k][3])
    IN  [j \in 1..Len(chunks) |->
           Record(dir_path, filename, "xlsx",
                  PyStr(SheetRow(rows[k][1], rows[k][2])), chunks[j],
                  PyNone)]])

PdfRecords(dir_path, filename, pages) ==
  Concat([k \in 1..Len(pages) |->
    LET chunks == chunk_sentences(pages[k][2])
    IN  [j \in 1..Len(chunks) |->
           Record(dir_path, filename, "pdf", PyInt(pages[k][1]), chunks[j],
                  PyNone)]])

\* file_ext = filename.lower().split(".")[-1]
FileExt(filename) ==
  LET parts == Split(Lower(filename), ".") IN parts[Len(parts)]

e_docx == <<"d","o","c","x">>
e_pptx == <<"p","p","t","x">>
e_xlsx == <<"x","l","s","x">>
e_pdf == <<"p","d","f">>

\* ------------------------------------------------------------------ writer
\* pd.DataFrame(all_records): the columns are the keys of the dicts, in the
\* order of the dict literal; a frame of no record has no column.
DataFrame(all_records) ==
  [columns |-> IF all_records = <<>> THEN <<>> ELSE Columns,
   index |-> [k \in 1..Len(all_records) |-> k - 1],
   data |-> all_records]

\* The table a writer puts out: a header row and one row per frame row, with
\* the index as a first column when index is set.
Table(df, index) ==
  [header |-> (IF index THEN <<"">> ELSE <<>>) \o df.columns,
   rows |-> [k \in 1..Len(df.data) |->
               (IF index THEN <<PyInt(df.index[k])>> ELSE <<>>)
               \o [c \in 1..Len(df.columns) |-> df.data[k][df.columns[c]]]]]

\* Faulty variant: to_excel called without index=False.
to_excel_default_index(df, index) == Table(df, TRUE)

to_csv(df, index) == Table(df, index)
to_excel(df, index) == Table(df, index)

\* ------------------------------------------------------------------ inputs
\* The directories os.walk yields, top down.
Dirs == <<"in", "in/sub">>

n_a_docx == <<"a",".","d","o","c","x">>
n_b_PPTX == <<"b",".","P","P","T","X">>
n_c_xlsx == <<"c",".","x","l","s","x">>
n_d_Pdf == <<"d",".","P","d","f">>
n_pptx == <<"p","p","t","x">>
n_e_txt == <<"e",".","t","x","t">>
n_notes == <<"n","o","t","e","s">>
n_f_pdf_bak == <<"f",".","p","d","f",".","b","a","k">>

FileNames == {n_a_docx, n_b_PPTX, n_c_xlsx, n_d_Pdf, n_pptx, n_e_txt, n_notes,
              n_f_pdf_bak}

\* What docx.Document gives: the paragraphs and the comments, or an exception.
DocxOutcomes ==
  {Raised,
   Returned([paragraphs |-> <<s_HiYo, s_blank, s_padded>>,
             comments |-> <<s_ok, s_ok>>]),
   Returned([paragraphs |-> <<>>, comments |-> <<>>])}

\* What pptx.Presentation gives: slides of shapes; a shape is its text, or
\* PyNone when it has no text attribute.
PptxOutcomes ==
  {Raised,
   Returned(<< <<PyNone, PyStr(s_blank)>>, <<PyStr(s_Hi), PyStr(s_padded)>>,
               <<>> >>)}

\* What openpyxl.load_workbook gives: sheets of rows of cell values.
XlsxOutcomes ==
  {Raised,
   Returned(<<[name |-> s_S1,
               rows |-> << <<PyStr(s_Hi), PyInt(12)>>, <<PyNone, PyNone>> >>]>>),
   Returned(<<[name |-> s_S1,
               rows |-> << <<PyStr(s_blank)>>, <<>>,
                           <<PyStr(s_HiYo), PyNone>> >>],
              [name |-> s_T,
               rows |-> << <<PyStr(s_empty), PyStr(s_empty)>>,
                           <<PyNone, PyStr(s_padded)>> >>]>>)}

\* page.extract_text(), convert_from_path and image_to_string results.
NativeOutcomes == {Raised, PyNone, PyStr(s_blank), PyStr(s_padded)}
ConvOutcomes == {Raised, Ok}
OcrOutcomes == {Raised, PyStr(s_blank), PyStr(s_HiYo)}

\* ------------------------------------------------------------------- state
VARIABLES
  pc,          \* where the program is
  records,     \* process_directory's records list
  dir,         \* index in Dirs of the directory being walked
  nfiles,      \* files visited so far
  pages_read,  \* pages of the PDFs opened so far
  visited,     \* name of the file visited last
  invoked,     \* the extractor called on it, "none" if none
  doc,         \* what the library opened the file as, PyNone if nothing
  units,       \* what that extractor returned
  exc,         \* the call whose exception nothing caught, "none" if none
  npages,      \* extract_pdf: len(pdf.pages)
  i,           \* extract_pdf: pages of the loop done
  text_items,  \* extract_pdf: text_items
  pdf_error,   \* extract_pdf: the except clause ran
  natives,     \* extract_pdf: page_text of each page read, by page
  raster,      \* extract_pdf: the (first_page, last_page) of each convert_from_path call
  ocr,         \* extract_pdf: the (image, text) of each image_to_string call that returned
  df,          \* the DataFrame of the entry point
  csv_out,     \* the CSV file, PyNone while not written
  xlsx_out     \* the XLSX file, PyNone while not written

walk_vars == <<dir, nfiles, pages_read, visited, invoked, doc, units>>
pdf_vars == <<npages, i, text_items, pdf_error, natives, raster, ocr>>
out_vars == <<df, csv_out, xlsx_out>>
vars == <<pc, records, exc, walk_vars, pdf_vars, out_vars>>

Init ==
  /\ pc = "walk"
  /\ records = <<>>
  /\ dir = 1
  /\ nfiles = 0
  /\ pages_read = 0
  /\ visited = <<>>
  /\ invoked = "none"
  /\ doc = PyNone
  /\ units = <<>>
  /\ exc = "none"
  /\ npages = 0
  /\ i = 0
  /\ text_items = <<>>
  /\ pdf_error = FALSE
  /\ natives = <<>>
  /\ raster = <<>>
  /\ ocr = <<>>
  /\ df = PyNone
  /\ csv_out = PyNone
  /\ xlsx_out = PyNone

\* Faulty variant: the exception is caught and the walk goes on.
PropagateSwallowed(call) ==
  /\ pc' = "walk"
  /\ exc' = call
  /\ UNCHANGED <<records, out_vars>>

\* An exception no handler of the program catches: the process ends there.
Propagate(call) ==
  /\ pc' = "terminated"
  /\ exc' = call
  /\ UNCHANGED <<records, out_vars>>

\* The next file of the walk is a docx.
VisitDocx ==
  /\ pc = "walk" /\ nfiles < MaxFiles
  /\ \E filename \in FileNames, res \in DocxOutcomes :
       /\ FileExt(filename) = e_docx
       /\ visited' = filename /\ invoked' = "extract_docx"
       /\ nfiles' = nfiles + 1
       /\ IF res = Raised
          THEN Propagate("extract_docx") /\ units' = <<>> /\ doc' = PyNone
          ELSE LET r == extract_docx(res.v)
               IN  /\ records' = records
                         \o DocxRecords(Dirs[dir], filename, r.text, r.comments)
                   /\ units' = r.text
                   /\ doc' = res
                   /\ pc' = "walk"
                   /\ UNCHANGED <<exc, out_vars>>
  /\ UNCHANGED <<dir, pages_read, pdf_vars>>

VisitPptx ==
  /\ pc = "walk" /\ nfiles < MaxFiles
  /\ \E filename \in FileNames, res \in PptxOutcomes :
       /\ FileExt(filename) # e_docx /\ FileExt(filename) = e_pptx
       /\ visited' = filename /\ invoked' = "extract_pptx"
       /\ nfiles' = nfiles + 1
       /\ IF res = Raised
          THEN Propagate("extract_pptx") /\ units' = <<>> /\ doc' = PyNone
          ELSE LET slides == extract_pptx(res.v)
               IN  /\ records' = records
                         \o PptxRecords(Dirs[dir], filename, slides)
                   /\ units' = slides
                   /\ doc' = res
                   /\ pc' = "walk"
                   /\ UNCHANGED <<exc, out_vars>>
  /\ UNCHANGED <<dir, pages_read, pdf_vars>>

VisitXlsx ==
  /\ pc = "walk" /\ nfiles < MaxFiles
  /\ \E filename \in FileNames, res \in XlsxOutcomes :
       /\ FileExt(filename) \notin {e_docx, e_pptx}
       /\ FileExt(filename) = e_xlsx
       /\ visited' = filename /\ invoked' = "extract_xlsx"
       /\ nfiles' = nfiles + 1
       /\ IF res = Raised
          THEN Propagate("extract_xlsx") /\ units' = <<>> /\ doc' = PyNone
          ELSE LET rows == extract_xlsx(res.v)
               IN  /\ records' = records
                         \o XlsxRecords(Dirs[dir], filename, rows)
                   /\ units' = rows
                   /\ doc' = res
                   /\ pc' = "walk"
                   /\ UNCHANGED <<exc, out_vars>>
  /\ UNCHANGED <<dir, pages_read, pdf_vars>>

\* The next file is a pdf: extract_pdf opens it and finds len(pdf.pages) pages.
VisitPdf ==
  /\ pc = "walk" /\ nfiles < MaxFiles
  /\ \E filename \in FileNames, res \in {Raised} \cup {Returned(n) : n \in 0..(MaxPages - pages_read)} :
       /\ FileExt(filename) \notin {e_docx, e_pptx, e_xlsx}
       /\ FileExt(filename) = e_pdf
       /\ visited' = filename /\ invoked' = "extract_pdf"
       /\ nfiles' = nfiles + 1
       /\ units' = <<>> /\ doc' = PyNone
       /\ text_items' = <<>> /\ i' = 0
       /\ natives' = <<>> /\ raster' = <<>> /\ ocr' = <<>>
       /\ IF res = Raised
          THEN /\ pdf_error' = TRUE /\ npages' = 0 /\ pc' = "pdf_return"
               /\ pages_read' = pages_read
          ELSE /\ pdf_error' = FALSE /\ npages' = res.v
               /\ pages_read' = pages_read + res.v
               /\ pc' = IF res.v = 0 THEN "pdf_return" ELSE "pdf_page"
  /\ UNCHANGED <<records, exc, dir, out_vars>>

\* Faulty variant: extract_pdf without its try/except.
PdfPageNoTry ==
  /\ pc = "pdf_page" /\ i < npages
  /\ \E native \in NativeOutcomes, conv \in ConvOutcomes,
        ocr_of \in [1..MaxPages -> OcrOutcomes] :
       LET r == PdfPageBody(text_items, i, native, conv, ocr_of)
       IN  /\ text_items' = r.items
           /\ natives' = natives \o r.native
           /\ raster' = raster \o r.raster
           /\ ocr' = ocr \o r.ocr
           /\ IF r.raised
              THEN /\ pdf_error' = TRUE /\ i' = i /\ pc' = "terminated"
                   /\ exc' = "extract_pdf"
              ELSE /\ pdf_error' = FALSE /\ i' = i + 1 /\ exc' = exc
                   /\ pc' = IF i + 1 = npages THEN "pdf_return" ELSE "pdf_page"
  /\ UNCHANGED <<records, walk_vars, npages, out_vars>>

\* One turn of extract_pdf's page loop, and the except clause if it raises.
PdfPage ==
  /\ pc = "pdf_page" /\ i < npages
  /\ \E native \in NativeOutcomes, conv \in ConvOutcomes,
        ocr_of \in [1..MaxPages -> OcrOutcomes] :
       LET r == PdfPageBody(text_items, i, native, conv, ocr_of)
       IN  /\ text_items' = r.items
           /\ natives' = natives \o r.native
           /\ raster' = raster \o r.raster
           /\ ocr' = ocr \o r.ocr
           /\ IF r.raised
              THEN /\ pdf_error' = TRUE /\ i' = i /\ pc' = "pdf_return"
              ELSE /\ pdf_error' = FALSE /\ i' = i + 1
                   /\ pc' = IF i + 1 = npages THEN "pdf_return" ELSE "pdf_page"
  /\ UNCHANGED <<records, exc, walk_vars, npages, out_vars>>

\* extract_pdf returns text_items; process_directory makes the records.
PdfReturn ==
  /\ pc = "pdf_return"
  /\ records' = records \o PdfRecords(Dirs[dir], visited, text_items)
  /\ units' = text_items
  /\ pc' = "walk"
  /\ npages' = 0 /\ i' = 0 /\ text_items' = <<>> /\ pdf_error' = FALSE
  /\ natives' = <<>> /\ raster' = <<>> /\ ocr' = <<>>
  /\ UNCHANGED <<exc, dir, nfiles, pages_read, visited, invoked, doc, out_vars>>

\* The next file has another extension: continue.
VisitOther ==
  /\ pc = "walk" /\ nfiles < MaxFiles
  /\ \E filename \in FileNames :
       /\ FileExt(filename) \notin {e_docx, e_pptx, e_xlsx, e_pdf}
       /\ visited' = filename /\ invoked' = "none"
       /\ nfiles' = nfiles + 1
       /\ units' = <<>> /\ doc' = PyNone
  /\ UNCHANGED <<pc, records, exc, dir, pages_read, pdf_vars, out_vars>>

\* os.walk goes on to the next directory.
NextDir ==
  /\ pc = "walk" /\ dir < Len(Dirs)
  /\ dir' = dir + 1
  /\ UNCHANGED <<pc, records, exc, nfiles, pages_read, visited, invoked, doc,
                 units, pdf_vars, out_vars>>

\* The walk is over: process_directory returns, the entry point builds the frame.
EndWalk ==
  /\ pc = "walk"
  /\ df' = DataFrame(records)
  /\ pc' = "write_csv"
  /\ UNCHANGED <<records, exc, walk_vars, pdf_vars, csv_out, xlsx_out>>

WriteCsv ==
  /\ pc = "write_csv"
  /\ \E res \in {Raised, Ok} :
       IF res = Raised
       THEN Propagate("to_csv")
       ELSE /\ csv_out' = to_csv(df, FALSE)
            /\ pc' = "write_xlsx"
            /\ UNCHANGED <<records, exc, df, xlsx_out>>
  /\ UNCHANGED <<walk_vars, pdf_vars>>

WriteXlsx ==
  /\ pc = "write_xlsx"
  /\ \E res \in {Raised, Ok} :
       IF res = Raised
       THEN Propagate("to_excel")
       ELSE /\ xlsx_out' = to_excel(df, FALSE)
            /\ pc' = "done"
            /\ UNCHANGED <<records, exc, df, csv_out>>
  /\ UNCHANGED <<walk_vars, pdf_vars>>

Next ==
  \/ VisitDocx
  \/ VisitPptx
  \/ VisitXlsx
  \/ VisitPdf
  \/ PdfPage
  \/ PdfReturn
  \/ VisitOther
  \/ NextDir
  \/ EndWalk
  \/ WriteCsv
  \/ WriteXlsx

Spec == Init /\ [][Next]_vars

\* ================================================================== claims
\* The positions of text_items that hold a unit of page p.
UnitsOfPage(p) == {k \in 1..Len(text_items) : text_items[k][1] = p}

\* The image_to_string calls on an image of page p.
OcrOfPage(p) == {k \in 1..Len(ocr) : ocr[k][1] = p}

\* The convert_from_path calls whose page range holds page p.
RasterOfPage(p) == {k \in 1..Len(raster) : raster[k][1] <= p /\ p <= raster[k][2]}

\* C1: a page of a PDF whose native text is non-blank is never rasterized
\* and never given to OCR, and its one extraction unit is the pair of its
\* 1-indexed page number and the native text.
C1_NativeTextNeverOcr ==
  \A p \in 1..Len(natives) :
    Strip(natives[p]) # <<>> =>
      /\ RasterOfPage(p) = {}
      /\ OcrOfPage(p) = {}
      /\ Cardinality(UnitsOfPage(p)) = 1
      /\ \A k \in UnitsOfPage(p) : text_items[k] = <<p, natives[p]>>

\* A two-page PDF read to its end: one page went through OCR, the other
\* had a native text, which is kept with its padding.
C1_Witness ==
  /\ pc = "pdf_return" /\ ~pdf_error /\ Len(natives) = 2
  /\ Strip(natives[1]) = <<>> /\ Len(ocr) = 1
  /\ natives[2] = s_padded
  /\ Len(text_items) = 2

\* C7: a page whose native text is blank and whose turn of the loop ended
\* is rasterized by one call for that page alone, its image is read once,
\* and it gives the unit (page number, OCR text) if the OCR text is
\* non-blank and no unit otherwise; every page gives at most one unit and
\* the page numbers of text_items increase strictly.
C7_BlankPageOcrOnce ==
  /\ \A p \in 1..i :
       Strip(natives[p]) = <<>> =>
         /\ Cardinality(RasterOfPage(p)) = 1
         /\ \A k \in RasterOfPage(p) : raster[k] = <<p, p>>
         /\ Cardinality(OcrOfPage(p)) = 1
         /\ \A k \in OcrOfPage(p) :
              IF Strip(ocr[k][2]) # <<>>
              THEN /\ Cardinality(UnitsOfPage(p)) = 1
                   /\ \A u \in UnitsOfPage(p) : text_items[u] = <<p, ocr[k][2]>>
              ELSE UnitsOfPage(p) = {}
  /\ \A p \in 1..npages : Cardinality(UnitsOfPage(p)) <= 1
  /\ \A k \in 1..(Len(text_items) - 1) : text_items[k][1] < text_items[k + 1][1]

\* Two blank pages read: the OCR of the first was blank, that of the second
\* was not, and the only unit is the second page's.
C7_Witness ==
  /\ pc = "pdf_return" /\ i = 2
  /\ Strip(natives[1]) = <<>> /\ Strip(natives[2]) = <<>>
  /\ ocr = << <<1, s_blank>>, <<2, s_HiYo>> >>
  /\ text_items = << <<2, s_HiYo>> >>

IsPrefix(a, b) == Len(a) <= Len(b) /\ SubSeq(b, 1, Len(a)) = a

\* The sentences of the texts of a sequence, text by text.
RECURSIVE Sentences(_)
Sentences(texts) ==
  IF texts = <<>> THEN <<>>
  ELSE SentTokenize(Head(texts)) \o Sentences(Tail(texts))

\* C2: an exception in extract_pdf (on open or in the turn of a page) is
\* not raised to the caller: the units collected for the pages before the
\* failing one are what extract_pdf returns (none after a failed open),
\* the records accumulated so far are kept and the walk goes on.
C2_PdfErrorContained ==
  /\ [](pdf_error => pc = "pdf_return" /\ exc = "none")
  /\ [][/\ (pc = "pdf_page" /\ pdf_error') =>
             /\ text_items' = text_items
             /\ \A k \in 1..Len(text_items') : text_items'[k][1] <= i
             /\ records' = records
        /\ (pc = "walk" /\ pdf_error') =>
             /\ text_items' = <<>>
             /\ records' = records
        /\ (pc = "pdf_return" /\ pdf_error) =>
             /\ units' = text_items
             /\ IsPrefix(records, records')
             /\ Len(records') = Len(records)
                  + Len(Sentences([k \in 1..Len(text_items) |-> text_items[k][2]]))
             /\ pc' = "walk"
             /\ exc' = "none"]_vars

\* The second page of the second file failed after the first page gave a
\* unit; the first file's records are there.
C2_Witness ==
  /\ pdf_error /\ pc = "pdf_return" /\ nfiles = 2
  /\ npages = 2 /\ i = 1 /\ Len(text_items) = 1
  /\ Len(records) > 0

ExtractorCalls == {"extract_docx", "extract_pptx", "extract_xlsx"}

\* C3: when the docx, pptx or xlsx extractor raises, the run ends there: no
\* further step is taken, so no later file is processed, and neither
\* output is ever written; the outputs are written only once the walk has
\* ended.
C3_ExtractorFailureEndsRun ==
  /\ [](exc \in ExtractorCalls =>
          /\ pc = "terminated" /\ invoked = exc
          /\ csv_out = PyNone /\ xlsx_out = PyNone)
  /\ []((csv_out # PyNone \/ xlsx_out # PyNone) =>
          pc \in {"write_xlsx", "done", "terminated"})
  /\ [][exc \notin ExtractorCalls]_vars

\* The second file's extractor raised with the first file's records held.
C3_Witness ==
  /\ exc = "extract_xlsx" /\ nfiles = 2 /\ Len(records) > 0
  /\ csv_out = PyNone /\ xlsx_out = PyNone

\* The row of a record, in the column order of the outputs.
RowOf(r) ==
  <<r["File Path"], r["File Name"], r["File Type"], r["Page/Slide/Sheet"],
    r["Extracted sentence"], r["Comments"], r["Metadata"]>>

\* C8: when the run completes, the CSV and the XLSX hold the same rows, one
\* per record, in the order of the records list.
C8_SameRows ==
  pc = "done" =>
    /\ Len(csv_out.rows) = Len(records)
    /\ Len(xlsx_out.rows) = Len(records)
    /\ \A k \in 1..Len(records) :
         /\ Len(csv_out.rows[k]) = Len(xlsx_out.rows[k])
         /\ csv_out.rows[k] = RowOf(records[k])
         /\ xlsx_out.rows[k] = RowOf(records[k])

\* A completed run over two files with records of both.
C8_Witness ==
  /\ pc = "done" /\ Len(records) >= 4
  /\ records[1]["File Name"] # records[Len(records)]["File Name"]
  /\ Len(xlsx_out.rows) = Len(records)

\* The text of an extraction unit.
UnitText(call, u) == IF call = "extract_docx" THEN u ELSE u[Len(u)]

\* A step that ends the processing of a file.
FileProcessed ==
  \/ nfiles' = nfiles + 1 /\ invoked' \in ExtractorCalls
  \/ pc = "pdf_return"

\* C10: the records list only grows at its end; the processing of a file
\* appends, for its units in extraction order, one record per sentence in
\* segmenter order, under the file's name and with the unit's slide or page
\* number; units without a sentence append nothing; no other step changes
\* the list.
C10_AppendOnly ==
  [][/\ IsPrefix(records, records')
     /\ ~FileProcessed => records' = records
     /\ FileProcessed =>
          LET suffix == SubSeq(records', Len(records) + 1, Len(records'))
              texts == [k \in 1..Len(units') |-> UnitText(invoked', units'[k])]
              numbers == Concat([k \in 1..Len(units') |->
                           [j \in 1..Len(SentTokenize(texts[k])) |->
                              PyInt(units'[k][1])]])
          IN  /\ [k \in 1..Len(suffix) |-> suffix[k]["Extracted sentence"]]
                   = Sentences(texts)
              /\ \A k \in 1..Len(suffix) : suffix[k]["File Name"] = visited'
              /\ invoked' \in {"extract_pptx", "extract_pdf"} =>
                   [k \in 1..Len(suffix) |-> suffix[k]["Page/Slide/Sheet"]]
                     = numbers
              /\ (\A k \in 1..Len(texts) : SentTokenize(texts[k]) = <<>>) =>
                   records' = records]_vars

\* A presentation processed as second file: its first and third slides have
\* no sentence, its second has two, and two records were appended.
C10_Witness ==
  /\ invoked = "extract_pptx" /\ exc = "none" /\ nfiles = 2
  /\ Len(units) = 3 /\ units[1][2] = <<>>
  /\ Len(records) > 2
  /\ records[Len(records)]["Page/Slide/Sheet"] = PyInt(2)
  /\ records[Len(records) - 1]["Page/Slide/Sheet"] = PyInt(2)

\* The extension of a file name: what follows its last ".", lowercased; a
\* name without "." has none.
Extension(name) ==
  IF \E k \in 1..Len(name) : name[k] = "."
  THEN LET k == CHOOSE j \in 1..Len(name) :
                  name[j] = "." /\ \A m \in (j + 1)..Len(name) : name[m] # "."
       IN  Lower(SubSeq(name, k + 1, Len(name)))
  ELSE <<>>

TagChars(tag) ==
  CASE tag = "docx" -> e_docx
    [] tag = "pptx" -> e_pptx
    [] tag = "xlsx" -> e_xlsx
    [] tag = "pdf" -> e_pdf
    [] OTHER -> <<>>

\* "<sheet>:<row>" with a row >= 1
IsSheetRow(s) ==
  \E k \in 1..Len(s) :
    /\ s[k] = ":"
    /\ \E row \in 1..99 : SubSeq(s, k + 1, Len(s)) = Digits(row)

\* C4 (as claimed): every record's File Type is one of the four tags and is
\* the lowercased extension of its File Name, and its location has the
\* format of that type.
C4_TagMatchesExtension ==
  \A k \in 1..Len(records) :
    LET r == records[k]
        loc == r["Page/Slide/Sheet"]
    IN  /\ r["File Type"] \in {"docx", "pptx", "xlsx", "pdf"}
        /\ TagChars(r["File Type"]) = Extension(r["File Name"])
        /\ r["File Type"] = "docx" => loc = PyNone
        /\ r["File Type"] \in {"pptx", "pdf"} => loc.t = "int" /\ loc.i >= 1
        /\ r["File Type"] = "xlsx" => loc.t = "str" /\ IsSheetRow(loc.s)

\* A file name that ends in "." and one of the four extensions, in any case.
Recognised(name) ==
  \E e \in {e_docx, e_pptx, e_xlsx, e_pdf} :
    /\ Len(name) > Len(e)
    /\ Lower(SubSeq(name, Len(name) - Len(e), Len(name))) = <<".">> \o e

\* C5 (as claimed): the visit of a file whose name does not end in "." and
\* a recognised extension calls no extractor, adds no record and raises
\* nothing.
C5_UnrecognisedSkipped ==
  [][(nfiles' = nfiles + 1 /\ ~Recognised(visited')) =>
       /\ invoked' = "none"
       /\ records' = records
       /\ exc' = exc
       /\ pc' = pc]_vars

\* A cell that is None, empty or whitespace only.
BlankCell(c) == c = PyNone \/ (c.t = "str" /\ Strip(c.s) = <<>>)

\* The units the claim gives a sheet: none for a row of blank cells, one
\* for every other row, under the row's position in the sheet.
ClaimedSheetRows(sheet) ==
  LET Kept == {k \in 1..Len(sheet.rows) :
                 \E c \in 1..Len(sheet.rows[k]) : ~BlankCell(sheet.rows[k][c])}
      Unit(k) == <<sheet.name, k, RowText(sheet.rows[k])>>
      RECURSIVE From(_)
      From(k) == IF k > Len(sheet.rows) THEN <<>>
                 ELSE (IF k \in Kept THEN <<Unit(k)>> ELSE <<>>) \o From(k + 1)
  IN  From(1)

\* C6 (as claimed): extract_xlsx gives no unit for a row whose cells are all
\* None or blank and one unit (sheet, row number, joined text) for every
\* other row.
C6_BlankRowsDropped ==
  (invoked = "extract_xlsx" /\ exc = "none") =>
    units = Concat([k \in 1..Len(doc.v) |-> ClaimedSheetRows(doc.v[k])])

\* C9 (as claimed): an output that was written has the seven columns as
\* its header, whatever the records.
C9_HeaderAlways ==
  /\ csv_out # PyNone => csv_out.header = Columns
  /\ xlsx_out # PyNone => xlsx_out.header = Columns

====
